---- MODULE Spec2Model ----
(***************************************************************************)
(* Credential lifecycle of the blog's accounts application:                *)
(*   accounts/services.py  AuthService, TokenService (PyJWT tokens)        *)
(*   accounts/views.py     the auth endpoints (DRF APIView + csrf_protect) *)
(* The service layer is modelled with one thread per request; each thread  *)
(* serves one logout or refresh call, and the refresh operation is split   *)
(* wherever another thread, the clock or the user table can act between    *)
(* two of its statements.  The endpoints serve one request at a time, in   *)
(* the stages DRF runs them: CSRF check, authentication and permissions,   *)
(* then the handler method.                                                *)
(***************************************************************************)
EXTENDS Integers, FiniteSets, Sequences, TLC

(* ------------------------------ bounds -------------------------------- *)
\* how many times the clock is advanced in one behaviour
MaxTicks == 1
\* how many direct AuthService.login calls succeed in one behaviour
MaxLogins == 1
MaxLookups == 2

(* -------------------------- program constants ------------------------- *)
AUTH_COOKIE_ACCESS_MAX_AGE == 1800
AUTH_COOKIE_REFRESH_MAX_AGE == 1209600
\* SIMPLE_JWT: the lifetimes of the tokens RefreshToken.for_user makes
ACCESS_TOKEN_LIFETIME == 1800
REFRESH_TOKEN_LIFETIME == 1209600

Threads == {"t1", "t2"}
UserIds == {"u1", "u2"}
None == "None"

\* the e-mail address and the password stored in the row of user u
EmailOf(u) == IF u = "u1" THEN "a@example.com" ELSE "b@example.com"
PasswordOf(u) == IF u = "u1" THEN "pw-a" ELSE "pw-b"
\* what a client may type
Emails == {"a@example.com", "A@example.com", "b@example.com"}
\* str.lower() on the addresses a request can carry.
Lower(email) == IF email = "A@example.com" THEN "a@example.com" ELSE email
Passwords == {"pw-a", "wrong"}

\* the amounts by which the clock is advanced
Deltas == {AUTH_COOKIE_ACCESS_MAX_AGE, AUTH_COOKIE_REFRESH_MAX_AGE}

VARIABLES
  now,        \* datetime.now(timezone.utc), in seconds
  ticks,      \* number of clock advances so far
  users,      \* the User table: id -> "absent" | "active" | "inactive" | "deleted"
  nextJti,    \* stands for uuid.uuid4(): the next fresh identifier
  calls,      \* number of successful direct AuthService.login calls so far
  held,       \* every token string handed out so far (what clients may present)
  rotated,    \* history: jti of every refresh token a successful refresh consumed
  loggedOut,  \* history: jti of every refresh token handed to logout
  pc,         \* per thread: position inside its current service call
  call,       \* per thread: the call and its arguments
  local,      \* per thread: local variables of refresh_tokens
  result,     \* per thread: the value the call returned
  hpc,        \* the HTTP request being served: the stage it has reached
  req,        \* the HTTP request: endpoint, method, CSRF token, cookies, body
  trace,      \* history: the stages that have run for this request, in order
  user,       \* request.user, as perform_authentication left it
  resp,       \* the HTTP response
  posts,      \* the Post table: a set of rows
  nextPostId, \* the primary key the next inserted Post gets
  view        \* the last blog operation: who asked what, and what was answered

clockVars == <<now, ticks>>
tokenVars == <<nextJti, calls, held, rotated, loggedOut>>
threadVars == <<pc, call, local, result>>
httpVars == <<hpc, req, trace, user, resp>>
blogVars == <<posts, nextPostId, view>>
vars == <<now, ticks, users, nextJti, calls, held, rotated, loggedOut,
          pc, call, local, result, hpc, req, trace, user, resp,
          posts, nextPostId, view>>

(* ------------------------------ tokens -------------------------------- *)
\* A token string is modelled by the claims it encodes and the key that
\* signed it; "form" tells a JWT from a string that is no JWT at all.
Token(key, uid, type, iat, exp, jti) ==
  [form |-> "jwt", key |-> key, user_id |-> uid, type |-> type,
   iat |-> iat, exp |-> exp, jti |-> jti]

Malformed ==
  [form |-> "garbage", key |-> "none", user_id |-> None, type |-> "none",
   iat |-> 0, exp |-> 0, jti |-> 0]

\* no token at all (the argument is None)
Absent ==
  [form |-> "absent", key |-> "none", user_id |-> None, type |-> "none",
   iat |-> 0, exp |-> 0, jti |-> 0]

\* a well-formed refresh token signed with a key the server does not use
Forged(u) ==
  [form |-> "jwt", key |-> "attacker", user_id |-> u, type |-> "refresh",
   iat |-> 0, exp |-> AUTH_COOKIE_REFRESH_MAX_AGE, jti |-> 0]

\* jwt.decode with options={'verify_exp': False}
JwtDecodeWithoutExpiry(token, t) ==
  IF token.form # "jwt" THEN "DecodeError"
  ELSE IF token.key # "SECRET_KEY" THEN "InvalidSignatureError"
  ELSE "payload"

\* jwt.decode(token, self.secret_key, algorithms=['HS256']) at time t
JwtDecode(token, t) ==
  IF token.form # "jwt" THEN "DecodeError"
  ELSE IF token.key # "SECRET_KEY" THEN "InvalidSignatureError"
  ELSE IF token.exp <= t THEN "ExpiredSignatureError"
  ELSE "payload"

\* an access token signed with the refresh token's lifetime
GenerateAccessWithRefreshLifetime(u, t, jti) ==
  Token("SECRET_KEY", u, "access", t, t + AUTH_COOKIE_REFRESH_MAX_AGE, jti)

generate_access_token(u, t, jti) ==
  Token("SECRET_KEY", u, "access", t, t + AUTH_COOKIE_ACCESS_MAX_AGE, jti)

\* one uuid drawn for the pair: the refresh token gets the access token's jti
GenerateRefreshSharingJti(u, t, jti) ==
  Token("SECRET_KEY", u, "refresh", t, t + AUTH_COOKIE_REFRESH_MAX_AGE, jti - 1)

generate_refresh_token(u, t, jti) ==
  Token("SECRET_KEY", u, "refresh", t, t + AUTH_COOKIE_REFRESH_MAX_AGE, jti)

\* an access verification that also looks its session up among the revoked ones
\* (the refresh token of a pair carries the jti after the access token's)
VerifyAccessCheckingRevocation(token, t) ==
  IF JwtDecode(token, t) # "payload" THEN None
  ELSE IF token.type # "access" THEN None
  ELSE IF token.jti + 1 \in (rotated \cup loggedOut) THEN None
  ELSE token.user_id

verify_access_token(token, t) ==
  IF JwtDecode(token, t) # "payload" THEN None
  ELSE IF token.type # "access" THEN None
  ELSE token.user_id

\* rest_framework_simplejwt: AccessToken(raw_token) under SIMPLE_JWT's key.
\* A TokenService token fails here (other key; were the keys equal, it carries
\* no token_type claim), as a SimpleJWT token fails in JwtDecode or on 'type'.
get_validated_token(token, t) ==
  /\ token.form = "jwt"
  /\ token.key = "JWT_SECRET_KEY"
  /\ token.exp > t
  /\ token.type = "access"

\* the same without the comparison of the 'type' claim
VerifyRefreshIgnoringType(token, t) ==
  IF JwtDecode(token, t) # "payload" THEN None ELSE token.user_id

verify_refresh_token(token, t) ==
  IF JwtDecode(token, t) # "payload" THEN None
  ELSE IF token.type # "refresh" THEN None
  ELSE token.user_id

(* ------------------------------- Init --------------------------------- *)
NoCall == [op |-> "none", token |-> Malformed, email |-> "", password |-> "",
           afterLogout |-> FALSE, afterRotate |-> FALSE, case |-> "", subject |-> ""]
\* the locals of a call, and the attributes a view sets on its request object
\* (lookups, decodes and first are history, for the claims)
NoLocal ==
  [user_id |-> None, has_cached_user |-> FALSE, cached_user |-> None,
   lookups |-> 0, decodes |-> 0, first |-> None]
NoResult == [ok |-> FALSE]
NotCalled == [called |-> FALSE]
NoRequest == [endpoint |-> "none", method |-> "GET", csrf |-> FALSE,
              refresh |-> Absent, email |-> "", password |-> "",
              afterLogout |-> FALSE, afterRotate |-> FALSE, case |-> ""]
(* --------------------------------- blog --------------------------------- *)
\* primary keys of the Post table
PostIds == {1, 2}
\* the titles a caller of the service sends, and those a client of the API sends
Titles == {"Hello", "!!!"}
ApiTitles == {"Hello", "Schema"}
Statuses == {"draft", "published"}
\* the category rows an administrator has created, and "none" for NULL
Categories == {"news"}
\* what random.choices returns for an empty slugify (two draws may be equal)
RandomSuffixes == {"k3x9q2ab", "z0z0z0z0"}
\* request.user of a request that was not authenticated
AnonymousUser == "AnonymousUser"
NoView ==
  [op |-> "none", user |-> AnonymousUser, method |-> "", path |-> "", id |-> 0,
   arg |-> "", collided |-> FALSE, status |-> "", served |-> {}, cache |-> ""]

NoResponse == [status |-> 0, body |-> "", set |-> {}, cleared |-> {}, svc |-> NotCalled]

Init ==
  /\ now = 0
  /\ ticks = 0
  /\ users = [u \in UserIds |-> "absent"]
  /\ nextJti = 1
  /\ calls = 0
  /\ held = {}
  /\ rotated = {}
  /\ loggedOut = {}
  /\ pc = [t \in Threads |-> "idle"]
  /\ call = [t \in Threads |-> NoCall]
  /\ local = [t \in Threads |-> NoLocal]
  /\ result = [t \in Threads |-> NoResult]
  /\ hpc = "idle"
  /\ req = NoRequest
  /\ trace = << >>
  /\ user = None
  /\ resp = NoResponse
  /\ posts = {}
  /\ nextPostId = 1
  /\ view = NoView

(* ------------------------ clock and user table ------------------------ *)
Tick ==
  /\ ticks < MaxTicks
  /\ \E d \in Deltas : now' = now + d
  /\ ticks' = ticks + 1
  /\ UNCHANGED <<users, tokenVars, threadVars, httpVars, blogVars>>

Exists(u) == users[u] \in {"active", "inactive"}

\* the row whose email column equals the argument, as User.objects.get(email=...)
\* finds it; None stands for User.DoesNotExist.  E-mail addresses are unique:
\* every path that creates a row rejects an address already present.
UserByEmail(email) ==
  IF \E u \in UserIds : Exists(u) /\ EmailOf(u) = email
  THEN CHOOSE u \in UserIds : Exists(u) /\ EmailOf(u) = email
  ELSE None

\* UserService.create_user: a row for an address not yet in the table
create_user(u) ==
  /\ users[u] = "absent"
  /\ UserByEmail(EmailOf(u)) = None
  /\ users' = [users EXCEPT ![u] = "active"]
  /\ UNCHANGED <<clockVars, tokenVars, threadVars, httpVars, blogVars>>

\* UserService.update_user(user, is_active=False)
DeactivateUser(u) ==
  /\ users[u] = "active"
  /\ users' = [users EXCEPT ![u] = "inactive"]
  /\ UNCHANGED <<clockVars, tokenVars, threadVars, httpVars, blogVars>>

\* the row is deleted (the services expect it: they catch User.DoesNotExist)
\* (Post.author is on_delete=CASCADE: the user's posts go with the row)
DeleteUser(u) ==
  /\ posts' = {p \in posts : p.author # u}
  /\ Exists(u)
  /\ users' = [users EXCEPT ![u] = "deleted"]
  /\ UNCHANGED <<clockVars, tokenVars, threadVars, httpVars, nextPostId, view>>

(* ----------------------------- AuthService ---------------------------- *)
\* what a caller may present as a refresh token
Presentable == held \cup {Malformed, Absent, Forged("u1")}

\* AuthService.login, one step: it reads the table once and writes nothing shared
LoginValue(email, password, t, jti) ==
  LET u == UserByEmail(email) IN
  IF u = None THEN NoResult
  ELSE IF password # PasswordOf(u) THEN NoResult
  ELSE [ok |-> TRUE, user |-> u,
        access |-> generate_access_token(u, t, jti),
        refresh |-> generate_refresh_token(u, t, jti + 1)]

\* which of its three paths AuthService.login takes (history, for the claims)
LoginCase(email, password) ==
  LET u == UserByEmail(email) IN
  IF u = None THEN "no_such_user"
  ELSE IF password # PasswordOf(u) THEN "wrong_password"
  ELSE "match"

\* a direct call of AuthService.login that succeeds: the caller holds the pair
Login ==
  /\ calls < MaxLogins
  /\ \E email \in Emails, password \in Passwords :
       LET r == LoginValue(email, password, now, nextJti) IN
       /\ r.ok
       /\ nextJti' = nextJti + 2
       /\ held' = held \cup {r.access, r.refresh}
  /\ calls' = calls + 1
  /\ UNCHANGED <<clockVars, users, rotated, loggedOut, threadVars, httpVars, blogVars>>

\* a logout that verifies the token first and gives up when that fails
LogoutValueVerified(token) ==
  IF verify_refresh_token(token, now) # None THEN [ok |-> TRUE] ELSE NoResult

\* AuthService.logout: a stub that returns True whatever it is given
LogoutValue(token) == [ok |-> TRUE]

Logout(t) ==
  /\ pc[t] = "idle"
  /\ \E token \in Presentable :
       /\ call' = [call EXCEPT ![t] =
             [NoCall EXCEPT !.op = "logout", !.token = token,
                !.afterLogout = token.jti \in loggedOut,
                !.afterRotate = token.jti \in rotated,
                !.case = JwtDecode(token, now)]]
       /\ result' = [result EXCEPT ![t] = LogoutValue(token)]
       /\ loggedOut' = IF token.form = "jwt" /\ token.type = "refresh"
                       THEN loggedOut \cup {token.jti} ELSE loggedOut
  /\ pc' = [pc EXCEPT ![t] = "done"]
  /\ UNCHANGED <<clockVars, users, nextJti, calls, held, rotated, local, httpVars, blogVars>>

\* AuthService.refresh_tokens, statement by statement
RefreshCall(t) ==
  /\ pc[t] = "idle"
  /\ \E token \in Presentable \ {Absent} :
       call' = [call EXCEPT ![t] =
             [NoCall EXCEPT !.op = "refresh", !.token = token,
                !.afterLogout = token.jti \in loggedOut,
                !.afterRotate = token.jti \in rotated,
                !.case = JwtDecode(token, now)]]
  /\ pc' = [pc EXCEPT ![t] = "verify"]
  /\ UNCHANGED <<clockVars, users, tokenVars, local, result, httpVars, blogVars>>

\* user_id = token_service.verify_refresh_token(refresh_token)
RefreshVerify(t) ==
  /\ pc[t] = "verify"
  /\ LET uid == verify_refresh_token(call[t].token, now) IN
       IF uid = None
       THEN /\ result' = [result EXCEPT ![t] = NoResult]
            /\ pc' = [pc EXCEPT ![t] = "done"]
            /\ local' = local
       ELSE /\ local' = [local EXCEPT ![t].user_id = uid]
            /\ pc' = [pc EXCEPT ![t] = "get_user"]
            /\ result' = result
  /\ UNCHANGED <<clockVars, users, tokenVars, call, httpVars, blogVars>>

\* user = User.objects.get(id=user_id)
RefreshGetUser(t) ==
  /\ pc[t] = "get_user"
  /\ IF ~Exists(local[t].user_id)
     THEN /\ result' = [result EXCEPT ![t] = NoResult]
          /\ pc' = [pc EXCEPT ![t] = "done"]
     ELSE /\ pc' = [pc EXCEPT ![t] = "issue"]
          /\ result' = result
  /\ UNCHANGED <<clockVars, users, tokenVars, call, local, httpVars, blogVars>>

\* new_access_token = token_service.generate_access_token(user)
\* new_refresh_token = token_service.generate_refresh_token(user)
\* return (new_access_token, new_refresh_token)
RefreshIssue(t) ==
  /\ pc[t] = "issue"
  /\ LET a == generate_access_token(local[t].user_id, now, nextJti)
         r == generate_refresh_token(local[t].user_id, now, nextJti + 1) IN
       /\ result' = [result EXCEPT ![t] =
             [ok |-> TRUE, user |-> local[t].user_id, access |-> a, refresh |-> r]]
       /\ held' = held \cup {a, r}
  /\ nextJti' = nextJti + 2
  /\ rotated' = rotated \cup {call[t].token.jti}
  /\ pc' = [pc EXCEPT ![t] = "done"]
  /\ UNCHANGED <<clockVars, users, calls, loggedOut, call, local, httpVars, blogVars>>

\* AuthService.refresh_tokens run without interruption (inside one view call)
RefreshValue(token, t, jti) ==
  LET uid == verify_refresh_token(token, t) IN
  IF uid = None THEN NoResult
  ELSE IF ~Exists(uid) THEN NoResult
  ELSE [ok |-> TRUE, user |-> uid,
        access |-> generate_access_token(uid, t, jti),
        refresh |-> generate_refresh_token(uid, t, jti + 1)]

(* --------------------------- the auth endpoints ------------------------ *)
Methods == {"GET", "POST", "PATCH", "DELETE"}
SafeMethods == {"GET"}
\* what a browser may send in the access_token or refresh_token cookie
Cookies == held \cup {Malformed, Absent}

\* the same with the decorator left off LogoutView
CsrfProtectedExceptLogout(endpoint) ==
  endpoint \in {"login", "refresh", "register", "me"}

\* @method_decorator(csrf_protect, name='dispatch') on the view class
CsrfProtected(endpoint) ==
  endpoint \in {"login", "logout", "refresh", "register", "me"}

\* permission_classes of the view: TRUE for [IsAuthenticated], FALSE for [AllowAny]
RequiresAuthentication(endpoint) == endpoint \in {"logout", "me"}

\* the handler methods the view class defines
Handles(endpoint, method) ==
  \/ endpoint \in {"login", "logout", "refresh", "register"} /\ method = "POST"
  \/ endpoint = "me" /\ method \in {"GET", "PATCH"}
  \/ endpoint = "verify" /\ method = "GET"

\* the same without the two except clauses: the error reaches the caller
AuthenticateRaising(cookie, t) ==
  IF cookie.form = "absent" THEN None
  ELSE IF ~get_validated_token(cookie, t) THEN "TokenError"
  ELSE IF users[cookie.user_id] # "active" THEN "AuthenticationFailed"
  ELSE cookie.user_id

\* CookieJWTAuthentication.authenticate: the user, or None whatever went wrong
Authenticate(cookie, t) ==
  IF cookie.form = "absent" THEN None
  ELSE IF ~get_validated_token(cookie, t) THEN None
  ELSE IF users[cookie.user_id] # "active" THEN None
  ELSE cookie.user_id

\* AuthService.authenticate_request on the access_token cookie: the user, or None
authenticate_request(cookie, t) ==
  IF cookie.form = "absent" THEN None
  ELSE LET user_id == verify_access_token(cookie, t) IN
       IF user_id = None THEN None
       ELSE IF ~Exists(user_id) THEN None
       ELSE user_id

\* what is wrong with a cookie for a verifier that holds signing key `key`
\* (history, for the claims)
CookieCase(cookie, key, t) ==
  IF cookie.form = "absent" THEN "absent"
  ELSE IF cookie.form # "jwt" THEN "malformed"
  ELSE IF cookie.key # key THEN "bad_signature"
  ELSE IF cookie.exp <= t THEN "expired"
  ELSE IF cookie.type # "access" THEN "wrong_kind"
  ELSE "well_formed"

\* the row of the cookie's subject (history, for the claims)
SubjectOf(cookie) ==
  IF cookie.user_id \in UserIds THEN users[cookie.user_id] ELSE "none"

\* a request thread calls AuthService.authenticate_request
AuthenticateRequest(t) ==
  /\ pc[t] = "idle"
  /\ \E cookie \in Presentable :
       /\ call' = [call EXCEPT ![t] =
             [NoCall EXCEPT !.op = "authenticate_request", !.token = cookie,
                !.afterLogout = \E r \in held : r.type = "refresh" /\ r.jti = cookie.jti + 1
                                                 /\ r.jti \in loggedOut,
                !.afterRotate = \E r \in held : r.type = "refresh" /\ r.jti = cookie.jti + 1
                                                 /\ r.jti \in rotated,
                !.case = CookieCase(cookie, "SECRET_KEY", now),
                !.subject = SubjectOf(cookie)]]
       /\ result' = [result EXCEPT ![t] =
             [ok |-> authenticate_request(cookie, now) # None,
              user |-> authenticate_request(cookie, now)]]
  /\ pc' = [pc EXCEPT ![t] = "done"]
  /\ UNCHANGED <<clockVars, users, tokenVars, local, httpVars, blogVars>>

\* a helper that authenticates on every call
GetAuthenticatedUserUncached(request, cookie, t) ==
  [user |-> authenticate_request(cookie, t), decoded |-> TRUE]

\* AuthService.get_authenticated_user: request._cached_user when the request
\* has the attribute, else authenticate_request (decoded: whether the cookie
\* was decoded and the user looked up)
get_authenticated_user(request, cookie, t) ==
  IF request.has_cached_user
  THEN [user |-> request.cached_user, decoded |-> FALSE]
  ELSE [user |-> authenticate_request(cookie, t), decoded |-> TRUE]

\* a view calls AuthService.get_authenticated_user(request), for the first time
\* or again, on the request its thread is serving; the request's cookies stay
\* what they were
GetAuthenticatedUser(t) ==
  /\ pc[t] \in {"idle", "in_request"}
  /\ local[t].lookups < MaxLookups
  /\ \E cookie \in Presentable :
       /\ pc[t] = "in_request" => cookie = call[t].token
       /\ LET r == get_authenticated_user(local[t], cookie, now) IN
            /\ call' = [call EXCEPT ![t] =
                  [NoCall EXCEPT !.op = "get_authenticated_user", !.token = cookie]]
            /\ result' = [result EXCEPT ![t] = [ok |-> r.user # None, user |-> r.user]]
            /\ local' = [local EXCEPT ![t] =
                  [@ EXCEPT !.has_cached_user = TRUE,
                            !.cached_user = r.user,
                            !.lookups = @ + 1,
                            !.decodes = IF r.decoded THEN @ + 1 ELSE @,
                            !.first = IF local[t].lookups = 0 THEN r.user ELSE @]]
  /\ pc' = [pc EXCEPT ![t] = "in_request"]
  /\ UNCHANGED <<clockVars, users, tokenVars, httpVars, blogVars>>

\* DRF calls CookieJWTAuthentication.authenticate for a request thread
CookieAuthenticate(t) ==
  /\ pc[t] = "idle"
  /\ \E cookie \in Presentable :
       /\ call' = [call EXCEPT ![t] =
             [NoCall EXCEPT !.op = "authenticate", !.token = cookie,
                !.case = CookieCase(cookie, "JWT_SECRET_KEY", now),
                !.subject = SubjectOf(cookie)]]
       /\ result' = [result EXCEPT ![t] =
             [ok |-> Authenticate(cookie, now) # None,
              user |-> Authenticate(cookie, now)]]
  /\ pc' = [pc EXCEPT ![t] = "done"]
  /\ UNCHANGED <<clockVars, users, tokenVars, local, httpVars, blogVars>>

\* RegisterView.post answering 201, in one step: the row is created and
\* RefreshToken.for_user signs a pair for it
Register(u) ==
  /\ users[u] = "absent"
  /\ UserByEmail(EmailOf(u)) = None
  /\ users' = [users EXCEPT ![u] = "active"]
  /\ held' = held \cup
       {Token("JWT_SECRET_KEY", u, "access", now, now + ACCESS_TOKEN_LIFETIME, nextJti + 1),
        Token("JWT_SECRET_KEY", u, "refresh", now, now + REFRESH_TOKEN_LIFETIME, nextJti)}
  /\ nextJti' = nextJti + 2
  /\ UNCHANGED <<clockVars, calls, rotated, loggedOut, threadVars, httpVars, blogVars>>

\* what DRF answers when no authentication class has an authenticate_header
ForbiddenWhenNotAuthenticated(hasHeader) == 403

\* the status DRF gives NotAuthenticated: 401 when the first authentication
\* class has an authenticate_header (JWTAuthentication has one), else 403
NotAuthenticatedStatus(hasHeader) == IF hasHeader THEN 401 ELSE 403

Respond(status, body) ==
  [NoResponse EXCEPT !.status = status, !.body = body]

Endpoints == {"login", "logout", "refresh", "register", "me", "verify"}

\* a request arrives: its line and its CSRF token are fixed here; its cookies
\* and its body are drawn where the code reads them
HttpRequest ==
  /\ hpc \in {"idle", "done"}
  /\ \E endpoint \in Endpoints, method \in Methods, csrf \in BOOLEAN :
       req' = [NoRequest EXCEPT !.endpoint = endpoint, !.method = method, !.csrf = csrf]
  /\ hpc' = "csrf"
  /\ trace' = << >>
  /\ user' = None
  /\ resp' = NoResponse
  /\ UNCHANGED <<clockVars, users, tokenVars, threadVars, blogVars>>

\* csrf_protect around dispatch: an unsafe method needs the CSRF token
HttpCsrf ==
  /\ hpc = "csrf"
  /\ IF CsrfProtected(req.endpoint) /\ req.method \notin SafeMethods /\ ~req.csrf
     THEN /\ resp' = Respond(403, "CSRF verification failed")
          /\ hpc' = "done"
     ELSE /\ resp' = resp
          /\ hpc' = "initial"
  /\ trace' = IF CsrfProtected(req.endpoint) THEN Append(trace, "csrf") ELSE trace
  /\ UNCHANGED <<clockVars, users, tokenVars, threadVars, req, user, blogVars>>

\* APIView.initial: perform_authentication on the access_token cookie, then
\* check_permissions.  The requests are within the throttle rates.  (For the
\* verify view, which reads the same cookie again, what is wrong with the
\* cookie is kept in req.case.)
HttpInitial ==
  /\ hpc = "initial"
  /\ \E access \in Cookies \cup {Forged("u1")} :
       LET u == Authenticate(access, now) IN
       /\ user' = u
       /\ req' = IF req.endpoint = "verify"
                 THEN [req EXCEPT !.case = CookieCase(access, "JWT_SECRET_KEY", now)]
                 ELSE req
       /\ IF RequiresAuthentication(req.endpoint) /\ u = None
          THEN /\ resp' = Respond(NotAuthenticatedStatus(TRUE),
                                  "Authentication credentials were not provided.")
               /\ hpc' = "done"
          ELSE /\ resp' = resp
               /\ hpc' = "handler"
  /\ trace' = trace \o <<"authentication", "permissions">>
  /\ UNCHANGED <<clockVars, users, tokenVars, threadVars, blogVars>>

\* a login view that tells an unknown address from a wrong password
LoginResponseNotFound(email, password, r) ==
  IF email = "" \/ password = ""
  THEN Respond(400, "Email and password are required")
  ELSE IF UserByEmail(email) = None
  THEN [Respond(404, "User not found") EXCEPT !.svc = r]
  ELSE IF ~r.ok
  THEN [Respond(401, "Authentication failed") EXCEPT !.svc = r]
  ELSE [Respond(500, "Internal server error") EXCEPT !.svc = r]

\* LoginView.post, given the body and what AuthService.login returned
LoginResponse(email, password, r) ==
  IF email = "" \/ password = ""
  THEN Respond(400, "Email and password are required")
  ELSE IF ~r.ok
  THEN [Respond(401, "Authentication failed") EXCEPT !.svc = r]
  \* user, tokens = result: three values into two names, a ValueError,
  \* which the exception handler answers with 500
  ELSE [Respond(500, "Internal server error") EXCEPT !.svc = r]

\* deleting the refresh_token cookie only when the request carried one
LogoutClearedIfPresent(refresh) ==
  IF refresh.form = "absent"
  THEN {[name |-> "access_token", max_age |-> 0]}
  ELSE {[name |-> "access_token", max_age |-> 0], [name |-> "refresh_token", max_age |-> 0]}

\* LogoutView.post: the cookies the response deletes
LogoutCleared(refresh) ==
  {[name |-> "access_token", max_age |-> 0], [name |-> "refresh_token", max_age |-> 0]}

LogoutResponse(refresh) ==
  [Respond(200, "Logout successful") EXCEPT
     !.cleared = LogoutCleared(refresh),
     !.svc = IF refresh.form # "absent" THEN LogoutValue(refresh) ELSE NotCalled]

\* RefreshTokenView.post, given the cookie and what refresh_tokens returned
RefreshResponse(refresh, r) ==
  IF refresh.form = "absent"
  THEN Respond(401, "Refresh token is required")
  ELSE IF ~r.ok
  THEN [Respond(401, "Invalid refresh token") EXCEPT !.svc = r]
  \* result['access'] on a tuple: a TypeError, answered 500
  ELSE [Respond(500, "Internal server error") EXCEPT !.svc = r]

\* RegisterSerializer.is_valid
RegisterValid(email, password) == password # "" /\ UserByEmail(email) = None

\* the view has no handler for the method
HttpMethodNotAllowed ==
  /\ hpc = "handler"
  /\ ~Handles(req.endpoint, req.method)
  /\ hpc' = "done"
  /\ resp' = Respond(405, "Method not allowed")
  /\ trace' = Append(trace, "dispatch")
  /\ UNCHANGED <<clockVars, users, tokenVars, threadVars, req, user, blogVars>>

Serving(endpoint) ==
  hpc = "handler" /\ req.endpoint = endpoint /\ Handles(endpoint, req.method)

\* (the pair a successful AuthService.login or refresh_tokens returns to a view
\* is lost with the exception that follows, so the views leave nextJti alone)
HttpLogin ==
  /\ Serving("login")
  /\ \E email \in Emails \cup {""}, password \in Passwords \cup {""} :
       LET called == email # "" /\ password # ""
           r == LoginValue(email, password, now, nextJti) IN
       /\ req' = [req EXCEPT !.email = email, !.password = password,
                             !.case = IF called THEN LoginCase(email, password)
                                      ELSE "missing"]
       /\ resp' = LoginResponse(email, password, r)
       /\ trace' = trace \o (IF called THEN <<"dispatch", "AuthService">>
                             ELSE <<"dispatch">>)
  /\ hpc' = "done"
  /\ UNCHANGED <<clockVars, users, tokenVars, threadVars, user, blogVars>>

HttpLogout ==
  /\ Serving("logout")
  /\ \E refresh \in Cookies :
       LET called == refresh.form # "absent" IN
       /\ req' = [req EXCEPT !.refresh = refresh,
                             !.afterLogout = refresh.jti \in loggedOut,
                             !.afterRotate = refresh.jti \in rotated,
                             !.case = JwtDecode(refresh, now)]
       /\ resp' = LogoutResponse(refresh)
       /\ trace' = trace \o (IF called THEN <<"dispatch", "AuthService">>
                             ELSE <<"dispatch">>)
       /\ loggedOut' = IF refresh.form = "jwt" /\ refresh.type = "refresh"
                       THEN loggedOut \cup {refresh.jti} ELSE loggedOut
  /\ hpc' = "done"
  /\ UNCHANGED <<clockVars, users, nextJti, calls, held, rotated, threadVars, user, blogVars>>

HttpRefresh ==
  /\ Serving("refresh")
  /\ \E refresh \in Cookies :
       LET called == refresh.form # "absent"
           r == RefreshValue(refresh, now, nextJti) IN
       /\ req' = [req EXCEPT !.refresh = refresh,
                             !.afterLogout = refresh.jti \in loggedOut,
                             !.afterRotate = refresh.jti \in rotated,
                             !.case = JwtDecode(refresh, now)]
       /\ resp' = RefreshResponse(refresh, r)
       /\ trace' = trace \o (IF called THEN <<"dispatch", "AuthService">>
                             ELSE <<"dispatch">>)
       /\ rotated' = IF called /\ r.ok THEN rotated \cup {refresh.jti} ELSE rotated
  /\ hpc' = "done"
  /\ UNCHANGED <<clockVars, users, nextJti, calls, held, loggedOut, threadVars, user, blogVars>>

\* RegisterView.post: the tokens come from SimpleJWT's RefreshToken.for_user
HttpRegister ==
  /\ Serving("register")
  /\ \E u \in UserIds : \E password \in {PasswordOf(u), ""} :
       /\ users[u] # "deleted"
       /\ req' = [req EXCEPT !.email = EmailOf(u), !.password = password]
       /\ IF ~RegisterValid(EmailOf(u), password)
          THEN /\ resp' = Respond(400, "Validation failed")
               /\ UNCHANGED <<users, tokenVars>>
          ELSE LET a == Token("JWT_SECRET_KEY", u, "access", now,
                              now + ACCESS_TOKEN_LIFETIME, nextJti + 1)
                   f == Token("JWT_SECRET_KEY", u, "refresh", now,
                              now + REFRESH_TOKEN_LIFETIME, nextJti) IN
               /\ users' = [users EXCEPT ![u] = "active"]
               /\ resp' = [Respond(201, "Registration successful") EXCEPT
                     !.set = {[name |-> "access_token", value |-> a,
                               max_age |-> AUTH_COOKIE_ACCESS_MAX_AGE],
                              [name |-> "refresh_token", value |-> f,
                               max_age |-> AUTH_COOKIE_REFRESH_MAX_AGE]}]
               /\ held' = held \cup {a, f}
               /\ nextJti' = nextJti + 2
               /\ UNCHANGED <<calls, rotated, loggedOut>>
  /\ trace' = Append(trace, "dispatch")
  /\ hpc' = "done"
  /\ UNCHANGED <<clockVars, threadVars, user, blogVars>>

\* CurrentUserView.get and CurrentUserView.patch
HttpCurrentUser ==
  /\ Serving("me")
  /\ resp' = Respond(200, IF req.method = "GET" THEN "user"
                          ELSE "Profile updated successfully")
  /\ trace' = Append(trace, "dispatch")
  /\ hpc' = "done"
  /\ UNCHANGED <<clockVars, users, tokenVars, threadVars, req, user, blogVars>>

\* VerifyTokenView.get: 401 without the cookie; with one it calls
\* AuthService.verify_token, which AuthService does not define, and the
\* AttributeError is answered by the exception handler
VerifyResponse(case) ==
  IF case = "absent" THEN Respond(401, "Token is required")
  ELSE Respond(500, "Internal server error")

HttpVerify ==
  /\ Serving("verify")
  /\ resp' = VerifyResponse(req.case)
  /\ trace' = Append(trace, "dispatch")
  /\ hpc' = "done"
  /\ UNCHANGED <<clockVars, users, tokenVars, threadVars, req, user, blogVars>>


(* ================================= blog ================================== *)
\* Python's `k in s`, s.startswith(k), s.count(c) and s.rstrip(c) on strings
Contains(s, k) ==
  \E i \in 1..(Len(s) - Len(k) + 1) : SubSeq(s, i, i + Len(k) - 1) = k
StartsWith(s, k) == Len(s) >= Len(k) /\ SubSeq(s, 1, Len(k)) = k
RECURSIVE Count(_, _)
Count(s, c) ==
  IF Len(s) = 0 THEN 0
  ELSE (IF SubSeq(s, 1, 1) = c THEN 1 ELSE 0) + Count(SubSeq(s, 2, Len(s)), c)
RECURSIVE RStrip(_, _)
RStrip(s, c) ==
  IF Len(s) > 0 /\ SubSeq(s, Len(s), Len(s)) = c
  THEN RStrip(SubSeq(s, 1, Len(s) - 1), c)
  ELSE s

\* django.utils.text.slugify on the titles a client may send
slugify(title) ==
  IF title = "Hello" THEN "hello" ELSE IF title = "Schema" THEN "schema" ELSE ""

\* Post.objects.filter(slug=slug).exists()
SlugTaken(slug, rows) == \E p \in rows : p.slug = slug

\* the slug the while loop of Post.save stops at: base, base-1, base-2, ...
FreeSlug(base, rows) ==
  LET cand(k) == IF k = 0 THEN base ELSE base \o "-" \o ToString(k)
      n == CHOOSE k \in 0..Cardinality(rows) :
             /\ ~SlugTaken(cand(k), rows)
             /\ \A j \in 0..(k - 1) : SlugTaken(cand(j), rows)
  IN cand(n)

\* Post.save on a row: a missing slug is generated; the unique index of the
\* slug column then accepts the row or raises IntegrityError
PostSave(row, rnd) ==
  LET base == IF slugify(row.title) = "" THEN "post-" \o rnd ELSE slugify(row.title)
      slug == IF row.slug = "" THEN FreeSlug(base, posts) ELSE row.slug
  IN IF \E p \in posts : p.id # row.id /\ p.slug = slug
     THEN [ok |-> FALSE, row |-> row]
     ELSE [ok |-> TRUE, row |-> [row EXCEPT !.slug = slug]]

\* the slug a save asks for: the one supplied, else the one derived from the title
RequestedSlug(row, rnd) ==
  IF row.slug # "" THEN row.slug
  ELSE IF slugify(row.title) = "" THEN "post-" \o rnd ELSE slugify(row.title)

\* the outcomes of random.choices that matter to a save: only a save that
\* generates its slug from a title slugify empties draws one
RandomDraws(title, slug) ==
  IF slug = "" /\ slugify(title) = "" THEN RandomSuffixes ELSE {"k3x9q2ab"}

IsAuthenticated(u) == u # AnonymousUser
\* the users a request can be authenticated as, and the anonymous one
Requesters == {u \in UserIds : users[u] = "active"} \cup {AnonymousUser}
SAFE_METHODS == {"GET", "HEAD", "OPTIONS"}

\* CacheControlMiddleware.__call__: the Cache-Control header it leaves on the
\* response ("" when it leaves the response alone)
PublicCdn == "public, max-age=86400, s-maxage=180, stale-while-revalidate=86400"
CacheControl(path, method, authenticated) ==
  IF ~StartsWith(path, "/v1/") THEN ""
  ELSE IF \E k \in {"schema", "swagger", "redoc"} : Contains(path, k)
  THEN "public, max-age=86400"
  ELSE IF StartsWith(path, "/v1/auth/") THEN "no-store, private"
  ELSE IF Contains(path, "/users/") THEN "no-store, private"
  ELSE IF method = "OPTIONS" THEN "public, max-age=86400"
  ELSE IF method \in {"GET", "HEAD"}
  THEN IF Contains(path, "/posts/") /\ Count(RStrip(path, "/"), "/") = 3
       THEN IF authenticated THEN "private, max-age=86400" ELSE PublicCdn
       ELSE IF Contains(path, "posts") \/ Contains(path, "categories") THEN PublicCdn
       ELSE "no-cache"
  ELSE "no-store"

\* the record of a blog operation; for an API request the middleware has set
\* the Cache-Control header on the way out
View(op, u, method, path, id, arg, collided, status, served) ==
  [op |-> op, user |-> u, method |-> method, path |-> path, id |-> id, arg |-> arg,
   collided |-> collided, status |-> status, served |-> served,
   cache |-> CacheControl(path, method, IsAuthenticated(u))]

(* ------------------------------ PostService ------------------------------ *)
\* PostService.create_post -> Post.objects.create
CreatePost ==
  /\ nextPostId \in PostIds
  /\ \E u \in Requesters \ {AnonymousUser}, title \in Titles, slug \in {"", "hello"},
        status \in Statuses :
     \E rnd \in RandomDraws(title, slug) :
       LET row == [id |-> nextPostId, title |-> title, slug |-> slug, author |-> u,
                   status |-> status, category |-> "none"]
           r == PostSave(row, rnd)
           arg == RequestedSlug(row, rnd) IN
       IF r.ok
       THEN /\ posts' = posts \cup {r.row}
            /\ nextPostId' = nextPostId + 1
            /\ view' = View("create_post", u, "", "", row.id, arg, SlugTaken(arg, posts),
                            "ok", {row.id})
       ELSE /\ UNCHANGED <<posts, nextPostId>>
            /\ view' = View("create_post", u, "", "", 0, arg, SlugTaken(arg, posts),
                            "IntegrityError", {})
  /\ UNCHANGED <<clockVars, users, tokenVars, threadVars, httpVars>>

\* an update that does not compare the post's author with the user
UpdatePostUnchecked(id, u, data, rnd) ==
  IF ~\E p \in posts : p.id = id
  THEN [status |-> "BlogNotFoundError", posts |-> posts]
  ELSE LET post == CHOOSE p \in posts : p.id = id
           row == [post EXCEPT !.slug = IF data.slug = None THEN @ ELSE data.slug,
                               !.status = IF data.status = None THEN @ ELSE data.status]
           r == PostSave(row, rnd) IN
       IF r.ok THEN [status |-> "ok", posts |-> (posts \ {post}) \cup {r.row}]
       ELSE [status |-> "IntegrityError", posts |-> posts]

\* PostService.update_post: the outcome and the table it leaves
update_post(id, u, data, rnd) ==
  IF ~\E p \in posts : p.id = id
  THEN [status |-> "BlogNotFoundError", posts |-> posts]
  ELSE LET post == CHOOSE p \in posts : p.id = id
           row == [post EXCEPT !.slug = IF data.slug = None THEN @ ELSE data.slug,
                               !.status = IF data.status = None THEN @ ELSE data.status]
           r == PostSave(row, rnd) IN
       IF post.author # u THEN [status |-> "BlogPermissionError", posts |-> posts]
       ELSE IF r.ok THEN [status |-> "ok", posts |-> (posts \ {post}) \cup {r.row}]
       ELSE [status |-> "IntegrityError", posts |-> posts]

\* the data of an update: a new status, or a new slug
UpdateData ==
  {[status |-> st, slug |-> None] : st \in Statuses}
    \cup {[status |-> None, slug |-> "hello"]}

UpdatePost ==
  /\ \E id \in PostIds, u \in Requesters, data \in UpdateData :
       LET slug == data.slug
           r == update_post(id, u, data, "k3x9q2ab") IN
       /\ posts' = r.posts
       /\ view' = View("update_post", u, "", "", id,
                       IF slug = None THEN "" ELSE slug,
                       slug \notin {None, ""} /\ \E p \in posts : p.id # id /\ p.slug = slug,
                       r.status,
                       IF r.status = "ok" THEN {id} ELSE {})
  /\ UNCHANGED <<clockVars, users, tokenVars, threadVars, httpVars, nextPostId>>

\* PostService.delete_post: the outcome and the table it leaves
delete_post(id, u) ==
  IF ~\E p \in posts : p.id = id
  THEN [status |-> "BlogNotFoundError", posts |-> posts]
  ELSE LET post == CHOOSE p \in posts : p.id = id IN
       IF post.author # u THEN [status |-> "BlogPermissionError", posts |-> posts]
       ELSE [status |-> "ok", posts |-> posts \ {post}]

DeletePost ==
  /\ \E id \in PostIds, u \in Requesters :
       LET r == delete_post(id, u) IN
       /\ posts' = r.posts
       /\ view' = View("delete_post", u, "", "", id, "", FALSE, r.status, {})
  /\ UNCHANGED <<clockVars, users, tokenVars, threadVars, httpVars, nextPostId>>

\* PostService.get_post_by_id: the outcome and the post returned
get_post_by_id(id, u) ==
  IF ~\E p \in posts : p.id = id
  THEN [status |-> "BlogNotFoundError", served |-> {}]
  ELSE LET post == CHOOSE p \in posts : p.id = id IN
       IF post.status = "draft" /\ post.author # u
       THEN [status |-> "BlogPermissionError", served |-> {}]
       ELSE [status |-> "ok", served |-> {id}]

GetPostById ==
  /\ \E id \in PostIds, u \in Requesters :
       LET r == get_post_by_id(id, u) IN
       view' = View("get_post_by_id", u, "", "", id, "", FALSE, r.status, r.served)
  /\ UNCHANGED <<clockVars, users, tokenVars, threadVars, httpVars, posts, nextPostId>>

\* PostService.get_post_by_slug: the outcome and the post returned
get_post_by_slug(slug, u) ==
  IF ~\E p \in posts : p.slug = slug
  THEN [status |-> "BlogNotFoundError", id |-> 0, served |-> {}]
  ELSE LET post == CHOOSE p \in posts : p.slug = slug IN
       IF post.status = "draft" /\ (~IsAuthenticated(u) \/ post.author # u)
       THEN [status |-> "BlogPermissionError", id |-> post.id, served |-> {}]
       ELSE [status |-> "ok", id |-> post.id, served |-> {post.id}]

\* the slugs a client may ask for
Slugs == {p.slug : p \in posts} \cup {"missing"}

GetPostBySlug ==
  /\ \E slug \in Slugs, u \in Requesters :
       LET r == get_post_by_slug(slug, u) IN
       view' = View("get_post_by_slug", u, "", "", r.id, slug, FALSE, r.status, r.served)
  /\ UNCHANGED <<clockVars, users, tokenVars, threadVars, httpVars, posts, nextPostId>>

(* --------------------------- IsAuthorOrReadOnly --------------------------- *)
has_permission(method, u) == method \in SAFE_METHODS \/ IsAuthenticated(u)

\* a permission class that allows everything
HasObjectPermissionUnchecked(method, u, obj) == TRUE

has_object_permission(method, u, obj) ==
  IF method \in SAFE_METHODS
  THEN obj.status = "published" \/ obj.author = u
  ELSE obj.author = u

\* DRF asks the permission class about one object (check_object_permissions)
HasObjectPermission ==
  /\ \E obj \in posts, u \in Requesters, method \in {"GET", "PATCH", "DELETE"} :
       LET allowed == has_object_permission(method, u, obj) IN
       view' = View("has_object_permission", u, method, "", obj.id, "", FALSE,
                    IF allowed THEN "True" ELSE "False",
                    IF allowed /\ method \in SAFE_METHODS THEN {obj.id} ELSE {})
  /\ UNCHANGED <<clockVars, users, tokenVars, threadVars, httpVars, posts, nextPostId>>

(* ------------------------------- PostViewSet ------------------------------ *)
\* PostViewSet.get_queryset
get_queryset(action, u) ==
  IF action = "list" THEN {p \in posts : p.status = "published"}
  ELSE IF IsAuthenticated(u)
  THEN {p \in posts : p.status = "published" \/ p.author = u}
  ELSE {p \in posts : p.status = "published"}

\* GenericAPIView.get_object: 404 outside the queryset, then the object
\* permission (401 for an anonymous requester, 403 otherwise)
get_object(action, method, u, slug) ==
  LET found == {p \in get_queryset(action, u) : p.slug = slug} IN
  IF found = {} THEN [status |-> "404", id |-> 0]
  ELSE LET obj == CHOOSE p \in found : TRUE IN
       IF ~has_object_permission(method, u, obj)
       THEN [status |-> IF IsAuthenticated(u) THEN "403" ELSE "401", id |-> obj.id]
       ELSE [status |-> "200", id |-> obj.id]

DetailPath(slug) == "/v1/posts/" \o slug \o "/"
\* the row a detail path names, 0 if none (history, for the claims)
IdOfSlug(slug) ==
  IF \E p \in posts : p.slug = slug THEN (CHOOSE p \in posts : p.slug = slug).id ELSE 0

\* GET /v1/posts/
PostList ==
  /\ \E u \in Requesters :
       view' = View("list", u, "GET", "/v1/posts/", 0, "", FALSE, "200",
                    {p.id : p \in get_queryset("list", u)})
  /\ UNCHANGED <<clockVars, users, tokenVars, threadVars, httpVars, posts, nextPostId>>

\* GET /v1/posts/{slug}/
PostRetrieve ==
  /\ \E u \in Requesters, slug \in Slugs :
       LET r == get_object("retrieve", "GET", u, slug) IN
       view' = View("retrieve", u, "GET", DetailPath(slug), IdOfSlug(slug), slug, FALSE,
                    r.status,
                    IF r.status = "200" THEN {r.id} ELSE {})
  /\ UNCHANGED <<clockVars, users, tokenVars, threadVars, httpVars, posts, nextPostId>>

\* POST /v1/posts/ (the slug is read-only for the serializer)
PostCreate ==
  /\ \E u \in Requesters :
       IF ~has_permission("POST", u)
       THEN /\ view' = View("create", u, "POST", "/v1/posts/", 0, "", FALSE, "401", {})
            /\ UNCHANGED <<posts, nextPostId>>
       ELSE /\ nextPostId \in PostIds
            /\ \E title \in ApiTitles, status \in Statuses,
                  category \in Categories \cup {"none"} :
               \E rnd \in RandomDraws(title, "") :
                 LET row == [id |-> nextPostId, title |-> title, slug |-> "", author |-> u,
                             status |-> status, category |-> category]
                     r == PostSave(row, rnd)
                     arg == RequestedSlug(row, rnd) IN
                 /\ posts' = posts \cup {r.row}
                 /\ nextPostId' = nextPostId + 1
                 /\ view' = View("create", u, "POST", "/v1/posts/", row.id, arg,
                                 SlugTaken(arg, posts), "201", {row.id})
  /\ UNCHANGED <<clockVars, users, tokenVars, threadVars, httpVars>>

\* PATCH /v1/posts/{slug}/ with a status
PostPartialUpdate ==
  /\ \E u \in Requesters, slug \in Slugs, status \in Statuses :
       IF ~has_permission("PATCH", u)
       THEN /\ view' = View("partial_update", u, "PATCH", DetailPath(slug),
                            IdOfSlug(slug), slug, FALSE, "401", {})
            /\ posts' = posts
       ELSE LET r == get_object("partial_update", "PATCH", u, slug) IN
            /\ view' = View("partial_update", u, "PATCH", DetailPath(slug),
                            IF r.id = 0 THEN IdOfSlug(slug) ELSE r.id,
                            slug, FALSE, r.status,
                            IF r.status = "200" THEN {r.id} ELSE {})
            /\ posts' = IF r.status = "200"
                        THEN {IF p.id = r.id THEN [p EXCEPT !.status = status] ELSE p :
                                p \in posts}
                        ELSE posts
  /\ UNCHANGED <<clockVars, users, tokenVars, threadVars, httpVars, nextPostId>>

\* DELETE /v1/posts/{slug}/
PostDestroy ==
  /\ \E u \in Requesters, slug \in Slugs :
       IF ~has_permission("DELETE", u)
       THEN /\ view' = View("destroy", u, "DELETE", DetailPath(slug),
                            IdOfSlug(slug), slug, FALSE, "401", {})
            /\ posts' = posts
       ELSE LET r == get_object("destroy", "DELETE", u, slug) IN
            /\ view' = View("destroy", u, "DELETE", DetailPath(slug),
                            IF r.id = 0 THEN IdOfSlug(slug) ELSE r.id,
                            slug, FALSE, r.status, {})
            /\ posts' = IF r.status = "200" THEN {p \in posts : p.id # r.id} ELSE posts
  /\ UNCHANGED <<clockVars, users, tokenVars, threadVars, httpVars, nextPostId>>

\* GET /v1/users/me/posts/ (UserPostListView, IsAuthenticated)
UserPostList ==
  /\ \E u \in Requesters :
       view' = View("my_posts", u, "GET", "/v1/users/me/posts/", 0, "", FALSE,
                    IF IsAuthenticated(u) THEN "200" ELSE "401",
                    IF IsAuthenticated(u) THEN {p.id : p \in {q \in posts : q.author = u}}
                    ELSE {})
  /\ UNCHANGED <<clockVars, users, tokenVars, threadVars, httpVars, posts, nextPostId>>

\* GET /v1/categories/{slug}/posts/ (CategoryViewSet.posts)
CategoryPosts ==
  /\ \E u \in Requesters, category \in Categories :
       view' = View("category_posts", u, "GET", "/v1/categories/" \o category \o "/posts/",
                    0, category, FALSE, "200",
                    {p.id : p \in {q \in posts : q.category = category
                                                 /\ q.status = "published"}})
  /\ UNCHANGED <<clockVars, users, tokenVars, threadVars, httpVars, posts, nextPostId>>

NextBlog ==
  \/ \E u \in UserIds : create_user(u)
  \/ CreatePost
  \/ UpdatePost
  \/ DeletePost
  \/ GetPostById
  \/ GetPostBySlug
  \/ HasObjectPermission
  \/ PostRetrieve

\* the post service, the permission class and the post detail views
SpecBlog == Init /\ [][NextBlog]_vars

NextApi ==
  \/ \E u \in UserIds : create_user(u)
  \/ PostCreate
  \/ PostList
  \/ PostRetrieve
  \/ PostPartialUpdate
  \/ PostDestroy
  \/ UserPostList
  \/ CategoryPosts

\* the API views behind CacheControlMiddleware
SpecApi == Init /\ [][NextApi]_vars

Next ==
  \/ Tick
  \/ \E u \in UserIds : create_user(u)
  \/ \E u \in UserIds : DeactivateUser(u)
  \/ \E u \in UserIds : DeleteUser(u)
  \/ Login
  \/ \E t \in Threads : Logout(t)
  \/ \E t \in Threads : RefreshCall(t)
  \/ \E t \in Threads : RefreshVerify(t)
  \/ \E t \in Threads : RefreshGetUser(t)
  \/ \E t \in Threads : RefreshIssue(t)
  \/ \E t \in Threads : AuthenticateRequest(t)

\* the service layer called from request threads
Spec == Init /\ [][Next]_vars

NextHttp ==
  \/ Tick
  \/ \E u \in UserIds : DeactivateUser(u)
  \/ HttpRequest
  \/ HttpCsrf
  \/ HttpInitial
  \/ HttpMethodNotAllowed
  \/ HttpLogin
  \/ HttpLogout
  \/ HttpRefresh
  \/ HttpRegister
  \/ HttpCurrentUser
  \/ HttpVerify

NextMemo ==
  \/ Tick
  \/ \E u \in UserIds : create_user(u)
  \/ \E u \in UserIds : DeleteUser(u)
  \/ Login
  \/ \E t \in Threads : GetAuthenticatedUser(t)

\* views that ask for the authenticated user more than once per request
SpecMemo == Init /\ [][NextMemo]_vars

NextAuth ==
  \/ Tick
  \/ \E u \in UserIds : create_user(u)
  \/ \E u \in UserIds : Register(u)
  \/ \E u \in UserIds : DeactivateUser(u)
  \/ \E u \in UserIds : DeleteUser(u)
  \/ Login
  \/ AuthenticateRequest("t1")
  \/ CookieAuthenticate("t1")

\* the authentication of one request, by either of its two implementations
SpecAuth == Init /\ [][NextAuth]_vars

\* the endpoints, serving one request after another
SpecHttp == Init /\ [][NextHttp]_vars

(* ===================== claims about the service layer ================== *)
Done(t, op) == pc[t] = "done" /\ call[t].op = op

\* C1: a refresh token is good for one refresh only: a refresh call that
\* presents a token which an earlier refresh call already consumed
\* successfully returns no pair.
RefreshIsSingleUse ==
  \A t \in Threads :
    (Done(t, "refresh") /\ call[t].afterRotate) => ~result[t].ok

\* C2: once a refresh token has been revoked, by a logout that was given it
\* while valid or by a refresh that consumed it, verify_refresh_token rejects
\* it in every later state.
RevokedIsTerminal ==
  \A token \in held :
    token.jti \in (rotated \cup loggedOut) => verify_refresh_token(token, now) = None

\* C3: a refresh call that presents a token which was handed to logout while
\* it was valid returns no pair.
LogoutRevokesRefresh ==
  \A t \in Threads :
    (Done(t, "refresh") /\ call[t].afterLogout) => ~result[t].ok

\* C4: whenever a refresh call has returned a new pair, the token it was
\* called with no longer verifies.
OldTokenDeadWhenPairReturned ==
  \A t \in Threads :
    (Done(t, "refresh") /\ result[t].ok) =>
       verify_refresh_token(call[t].token, now) = None

\* C5: of two refresh calls that present the same token and run on two
\* threads at the same time (neither began after the other had succeeded),
\* at most one returns a pair.
ConcurrentReplayAtMostOne ==
  \A t1, t2 \in Threads :
    (/\ t1 # t2
     /\ Done(t1, "refresh") /\ Done(t2, "refresh")
     /\ call[t1].token = call[t2].token
     /\ ~call[t1].afterRotate /\ ~call[t2].afterRotate)
    => ~(result[t1].ok /\ result[t2].ok)
(* ======================== claims about the endpoints ===================== *)
Answered(endpoint) == hpc = "done" /\ req.endpoint = endpoint
StateChanging == {"POST", "PATCH", "DELETE"}
LoginFailures == {"wrong_password", "no_such_user"}
BothCookiesCleared ==
  {[name |-> "access_token", max_age |-> 0], [name |-> "refresh_token", max_age |-> 0]}

\* C6: a state-changing request to login, logout, refresh, register or the
\* user endpoint that carries no valid CSRF token never gets past the CSRF
\* check: it is answered 403 with nothing but the CSRF check run -- no
\* authentication, no permission check, no method dispatch, no AuthService call.
CsrfEnforcedFirst ==
  (/\ hpc \in {"initial", "handler", "done"}
   /\ req.endpoint \in {"login", "logout", "refresh", "register", "me"}
   /\ req.method \in StateChanging
   /\ ~req.csrf)
  => /\ hpc = "done"
     /\ resp.status = 403
     /\ trace = <<"csrf">>
     /\ user = None
     /\ resp.svc = NotCalled
     /\ resp.set = {}
     /\ resp.cleared = {}

CsrfEnforcedFirstWitness ==
  /\ Answered("logout")
  /\ req.method = "POST"
  /\ ~req.csrf
  /\ resp.status = 403
  /\ held # {}

\* C7: with a valid CSRF token, a login with wrong credentials and an
\* unauthenticated request to logout or to the user endpoint are answered 401;
\* 403 is answered only to a request whose CSRF check failed.
CredentialFailuresAre401 ==
  hpc = "done" =>
    /\ (req.csrf /\ req.endpoint = "login" /\ req.case \in LoginFailures)
         => resp.status = 401
    /\ (req.csrf /\ req.endpoint \in {"logout", "me"} /\ user = None)
         => resp.status = 401
    /\ resp.status = 403
         => (~req.csrf /\ req.method \in StateChanging /\ trace = <<"csrf">>)

CredentialFailuresAre401Witness ==
  /\ Answered("me")
  /\ req.method = "PATCH"
  /\ req.csrf
  /\ user = None
  /\ resp.status = 401

LogoutClearsBothCookies ==
  (Answered("logout") /\ resp.status = 200) => resp.cleared = BothCookiesCleared

LogoutClearsBothCookiesWitness ==
  /\ Answered("logout")
  /\ resp.status = 200
  /\ req.refresh.form = "absent"
  /\ resp.cleared = BothCookiesCleared

\* C10: a failed login is answered the same whichever way it failed: the
\* answer given to a login that failed on the password or on the address is
\* the answer, and carries the AuthService.login result, that every other
\* failing pair of address and password gets.
LoginFailuresIndistinguishable ==
  (Answered("login") /\ req.case \in LoginFailures) =>
    \A email \in Emails, password \in Passwords :
      LoginCase(email, password) \in LoginFailures =>
        /\ LoginValue(email, password, now, nextJti) = resp.svc
        /\ LoginResponse(email, password, LoginValue(email, password, now, nextJti)) = resp

LoginFailuresIndistinguishableWitness ==
  /\ Answered("login")
  /\ req.case = "wrong_password"
  /\ resp.status = 401
  /\ \E email \in Emails, password \in Passwords :
       LoginCase(email, password) = "no_such_user"

(* ================== claims about tokens and authentication =============== *)
\* C11: kind separation: a token issued as a refresh token never passes
\* access-token verification, and a token issued as an access token never passes
\* refresh-token verification, so a refresh with it fails, however well signed
\* and fresh the token is.
KindSeparation ==
  /\ \A token \in held :
       /\ token.type = "refresh" => verify_access_token(token, now) = None
       /\ token.type = "access" => verify_refresh_token(token, now) = None
  /\ \A t \in Threads :
       /\ (Done(t, "authenticate_request") /\ call[t].token.type = "refresh")
            => result[t].user = None
       /\ (Done(t, "refresh") /\ call[t].token.type = "access") => ~result[t].ok

KindSeparationWitness ==
  \E t1, t2 \in Threads :
    /\ ticks = 0
    /\ Done(t1, "refresh")
    /\ call[t1].token.type = "access"
    /\ call[t1].case = "payload"
    /\ ~result[t1].ok
    /\ Done(t2, "authenticate_request")
    /\ call[t2].case = "wrong_kind"
    /\ result[t2].user = None

\* C12: expiry: from its expires_at on, a token fails access verification,
\* refresh verification and refresh, valid signature or not; before its
\* expires_at a token of the right kind verifies and yields the subject it was
\* issued for.
ExpiryEnforced ==
  /\ \A token \in held : token.key = "SECRET_KEY" =>
       /\ now >= token.exp =>
            /\ verify_access_token(token, now) = None
            /\ verify_refresh_token(token, now) = None
       /\ (now < token.exp /\ token.type = "access")
            => verify_access_token(token, now) = token.user_id
       /\ (now < token.exp /\ token.type = "refresh")
            => verify_refresh_token(token, now) = token.user_id
  /\ \A t \in Threads :
       /\ (Done(t, "refresh") /\ call[t].case = "ExpiredSignatureError") => ~result[t].ok
       /\ (Done(t, "authenticate_request") /\ call[t].case = "expired")
            => result[t].user = None

ExpiryEnforcedWitness ==
  \E t1, t2 \in Threads :
    /\ Done(t1, "refresh")
    /\ call[t1].token \in held
    /\ call[t1].token.type = "refresh"
    /\ call[t1].case = "ExpiredSignatureError"
    /\ ~result[t1].ok
    /\ Done(t2, "authenticate_request")
    /\ call[t2].token \in held
    /\ call[t2].token.type = "access"
    /\ call[t2].case = "expired"
    /\ result[t2].user = None

\* C13: request authentication never raises and hides the reason: for an
\* access cookie that is absent, malformed, badly signed, expired or of the
\* wrong kind, CookieJWTAuthentication.authenticate and
\* AuthService.authenticate_request return None, the very result of a request
\* without the cookie.
AuthenticationHidesReason ==
  \A t \in Threads :
    /\ (Done(t, "authenticate") /\ call[t].case # "well_formed")
         => /\ result[t] = [ok |-> FALSE, user |-> None]
            /\ result[t].user = Authenticate(Absent, now)
    /\ (Done(t, "authenticate_request") /\ call[t].case # "well_formed")
         => /\ result[t] = [ok |-> FALSE, user |-> None]
            /\ result[t].user = authenticate_request(Absent, now)

AuthenticationHidesReasonWitness ==
  /\ Done("t1", "authenticate")
  /\ call["t1"].token \in held
  /\ call["t1"].token.key = "JWT_SECRET_KEY"
  /\ call["t1"].case = "expired"
  /\ result["t1"].user = None

\* C14: request authentication resolves only live subjects: when the subject of
\* the access token does not exist or is not active at the time of the call,
\* CookieJWTAuthentication.authenticate and AuthService.authenticate_request
\* return None.
OnlyLiveSubjectsAuthenticate ==
  \A t \in Threads :
    ((Done(t, "authenticate") \/ Done(t, "authenticate_request"))
       /\ call[t].subject # "active")
      => result[t].user = None

\* C15: login never issues credentials to an inactive account: no call of
\* AuthService.login hands out a token whose subject is not active at the time
\* of the call.
LoginRefusesInactive ==
  [][calls' # calls => \A token \in held' \ held : users[token.user_id] = "active"]_vars

\* C17: refresh does not reveal which check failed: a refresh with a token that
\* is revoked (logged out or already rotated), expired, of the wrong kind,
\* badly signed or malformed returns the one failure value of
\* AuthService.refresh_tokens.
RefreshFailureIsUniform ==
  \A t \in Threads :
    (/\ Done(t, "refresh")
     /\ \/ call[t].afterLogout
        \/ call[t].afterRotate
        \/ call[t].case # "payload"
        \/ call[t].token.type # "refresh")
    => result[t] = NoResult

\* C18: a failed rotation changes nothing: the step that ends a refresh called
\* with a token that was malformed, badly signed, expired, of the wrong kind or
\* revoked issues no token and leaves every held token as valid as it was.
FailedRotationChangesNothing ==
  [][\A t \in Threads :
       (/\ call[t].op = "refresh"
        /\ pc[t] # "done"
        /\ pc'[t] = "done"
        /\ \/ call[t].afterLogout
           \/ call[t].afterRotate
           \/ call[t].case # "payload"
           \/ call[t].token.type # "refresh")
       => /\ held' = held
          /\ nextJti' = nextJti
          /\ \A token \in held :
               /\ verify_refresh_token(token, now') = verify_refresh_token(token, now)
               /\ verify_access_token(token, now') = verify_access_token(token, now)]_vars

\* C19: access tokens are stateless: an access token still verifies, for its
\* subject, at every time before its own expires_at, also after the refresh
\* token issued with it was logged out or rotated.
AccessTokensAreStateless ==
  /\ \A token \in held :
       (token.type = "access" /\ token.key = "SECRET_KEY" /\ now < token.exp)
         => verify_access_token(token, now) = token.user_id
  /\ \A t \in Threads :
       (/\ Done(t, "authenticate_request")
        /\ call[t].afterLogout \/ call[t].afterRotate
        /\ call[t].case = "well_formed"
        /\ call[t].subject \in {"active", "inactive"})
       => result[t].user = call[t].token.user_id

AccessTokensAreStatelessWitness ==
  \E t \in Threads :
    /\ Done(t, "authenticate_request")
    /\ call[t].afterLogout
    /\ call[t].case = "well_formed"
    /\ result[t].user = call[t].token.user_id
    /\ result[t].user # None

RotationChain ==
  \A t \in Threads :
    /\ (Done(t, "refresh") /\ result[t].ok) =>
         /\ result[t].user = call[t].token.user_id
         /\ result[t].access.user_id = call[t].token.user_id
         /\ result[t].refresh.user_id = call[t].token.user_id
         /\ now < result[t].refresh.exp
              => verify_refresh_token(result[t].refresh, now) = call[t].token.user_id
    /\ (Done(t, "refresh") /\ call[t].afterRotate /\ call[t].token \in held)
         => ~result[t].ok

\* C22: auth cookies are set only on success: the answer to a login or a
\* refresh sets the access_token and the refresh_token cookie exactly when the
\* operation succeeded, and then with status 200; a failed login or refresh
\* (400, 401, 422) sets neither.
CookiesSetIffSuccess ==
  (Answered("login") \/ Answered("refresh")) =>
    /\ resp.set # {} => resp.status = 200
    /\ resp.status \in {400, 401, 422} => resp.set = {}
    /\ (resp.svc # NotCalled /\ resp.svc.ok) =>
         /\ resp.status = 200
         /\ {c.name : c \in resp.set} = {"access_token", "refresh_token"}

\* C23: login identifier matching is case-insensitive: a login that presents a
\* registered address in any letter case, with that user's password, succeeds
\* for the same user as a login with the stored spelling.
LoginIsCaseInsensitive ==
  \A u \in UserIds :
    (/\ Answered("login")
     /\ Exists(u)
     /\ Lower(req.email) = EmailOf(u)
     /\ req.password = PasswordOf(u))
      => /\ resp.svc # NotCalled
         /\ resp.svc.ok
         /\ resp.svc.user = u

InvalidKinds == {"malformed", "bad_signature", "expired", "wrong_kind"}
\* C24: verify exposes only validity: the answer to a verify request says
\* whether the access token is valid (200 for a valid one, something else
\* otherwise), and an invalid token gets the same answer whichever check
\* failed (malformed, bad signature, expired, wrong kind).
VerifyExposesOnlyValidity ==
  Answered("verify") /\ Handles("verify", req.method) =>
    /\ (req.case = "well_formed" /\ user # None) => resp.status = 200
    /\ req.case \in InvalidKinds =>
         /\ resp.status # 200
         /\ \A c \in InvalidKinds : resp = VerifyResponse(c)

\* the Max-Age configured for the cookie of a token of this kind
MaxAgeOf(type) ==
  IF type = "access" THEN AUTH_COOKIE_ACCESS_MAX_AGE ELSE AUTH_COOKIE_REFRESH_MAX_AGE
\* the pair the service layer generated for the request being answered
ServiceTokens ==
  IF req.endpoint \in {"login", "refresh"} /\ resp.svc # NotCalled /\ resp.svc.ok
  THEN {resp.svc.access, resp.svc.refresh} ELSE {}

\* C25: token lifetime equals cookie lifetime: every issued access token lives
\* AUTH_COOKIE_ACCESS_MAX_AGE seconds and every issued refresh token
\* AUTH_COOKIE_REFRESH_MAX_AGE seconds, every cookie that carries a token has
\* that token's lifetime as its Max-Age, and access lifetime < refresh lifetime.
TokenLifetimeEqualsCookieLifetime ==
  /\ \A k \in held \cup ServiceTokens : k.exp - k.iat = MaxAgeOf(k.type)
  /\ \A c \in resp.set :
       /\ c.max_age = c.value.exp - c.value.iat
       /\ c.max_age = MaxAgeOf(c.value.type)
  /\ \A a, f \in held \cup ServiceTokens :
       (a.type = "access" /\ f.type = "refresh") => a.exp - a.iat < f.exp - f.iat
TokenLifetimeEqualsCookieLifetimeWitness ==
  /\ Answered("login")
  /\ ServiceTokens # {}
  /\ resp.svc.access.iat > 0
  /\ \E k \in held : k.iat = 0

\* C26: per-request memoization: on one request the first call to
\* get_authenticated_user decodes the access cookie, every later call returns
\* what the first returned without decoding or looking the user up again, and
\* a request that has not called it yet holds no cached result (each request
\* decodes for itself and can only get its own cookie's subject).
PerRequestMemoization ==
  \A t \in Threads :
    /\ local[t].lookups = 0 => ~local[t].has_cached_user /\ local[t].decodes = 0
    /\ local[t].lookups > 0 =>
         /\ local[t].decodes = 1
         /\ result[t].user = local[t].first
         /\ local[t].cached_user = local[t].first
         /\ result[t].user \in {None, call[t].token.user_id}
PerRequestMemoizationWitness ==
  \E t1, t2 \in Threads :
    /\ t1 # t2
    /\ local[t1].lookups = 2
    /\ result[t1].user # None
    /\ authenticate_request(call[t1].token, now) = None
    /\ local[t2].lookups > 0
    /\ result[t2].user = None

(* ========================= claims about the blog ========================= *)
ReadOps == {"get_post_by_id", "get_post_by_slug", "retrieve", "has_object_permission"}

\* C27: draft confidentiality: a draft is never returned to a requester who is
\* not its author, by the object permission check, the retrieve queryset,
\* get_post_by_id or get_post_by_slug; and its author, asking for it through
\* any of them, gets it.
DraftConfidentiality ==
  \A p \in posts :
    p.status = "draft" =>
      /\ p.id \in view.served => view.user = p.author
      /\ (/\ view.op \in ReadOps
          /\ view.method \in {"", "GET"}
          /\ view.id = p.id
          /\ view.user = p.author) => p.id \in view.served
DraftConfidentialityWitness ==
  \E p \in posts :
    /\ p.status = "draft"
    /\ view.op = "retrieve"
    /\ view.id = p.id
    /\ view.user \notin {p.author, AnonymousUser}
    /\ view.served = {}

NoPublicDraft ==
  \A p \in posts :
    (p.id \in view.served /\ p.status = "draft") =>
      /\ ~Contains(view.cache, "public")
      /\ Contains(view.cache, "private") \/ Contains(view.cache, "no-store")

\* C30: post slugs stay unique: no two posts share a slug, and a save that asks
\* for a slug another post already has (derived from the title or supplied)
\* succeeds with a different slug that contains the one asked for, while the
\* other post keeps its slug.
SlugsStayUnique ==
  /\ \A p, q \in posts : p.slug = q.slug => p = q
  /\ (/\ view.op \in {"create_post", "update_post"}
      /\ view.status \in {"ok", "IntegrityError"}
      /\ view.collided) =>
       /\ view.status = "ok"
       /\ \E p, q \in posts :
            /\ p.id = view.id
            /\ p.slug # view.arg
            /\ Contains(p.slug, view.arg)
            /\ q.id # p.id
            /\ q.slug = view.arg
====
